---- MODULE Spec2Model ----
(***************************************************************************)
(* base64_type: the newtypes Base64 and UrlBase64 of src/src/lib.rs, their *)
(* two padding-indifferent engines, their textual and serde forms, the     *)
(* transparent access to the wrapped Vec<u8>, the cross conversions and    *)
(* the conversion to a 32-byte array.                                      *)
(*                                                                         *)
(* Strings are sequences of one-character strings, bytes are 0..255.       *)
(***************************************************************************)
EXTENDS Integers, Sequences, FiniteSets, TLC

VARIABLES
    vec,    \* the plain Vec<u8> a caller keeps beside the value (the tests' `vec`)
    b64,    \* the Base64 value, None before construction and once moved out
    url,    \* the UrlBase64 value, None before construction and once moved out
    text,   \* the string last produced or supplied: [by, stripped, s]
    out,    \* the result of the last call that returns one
    pc,     \* the caller's position
    trail   \* the first MaxTrail steps of the value's history: "slice", "from",
            \* "mut", "parsed", "unpadded"

vars == <<vec, b64, url, text, out, pc, trail>>

(***************************************************************************)
(* Bounds of the model.                                                    *)
(***************************************************************************)
\* longest byte vector of the value life cycle
MaxLen == 3
\* longest input string handed to the decoders
MaxStrLen == 5
\* the fixed-length conversion is tried on every length 0..MaxKeyLen (and 64)
MaxKeyLen == 33
\* how many steps of a value's history the trail records
MaxTrail == 3

\* the byte values vectors are built from: 2 and 99 are the bytes of the
\* tests' known vector, 251 makes the symbols 62 and 63 appear
ByteSet == {2, 99, 251}

\* the characters input strings are built from: symbols 0 and 16, the
\* padding character, and the two symbols in which the alphabets differ
InputChars == {"A", "Q", "=", "+", "/", "-", "_"}

RECURSIVE SeqsUpTo(_, _)
SeqsUpTo(S, n) ==
    IF n = 0 THEN {<<>>}
    ELSE LET shorter == SeqsUpTo(S, n - 1)
         IN  shorter \cup {Append(s, x) : s \in {t \in shorter : Len(t) = n - 1}, x \in S}

ByteSeqs == SeqsUpTo(ByteSet, MaxLen)

InputStrings == SeqsUpTo(InputChars, MaxStrLen)

Range(s) == {s[i] : i \in DOMAIN s}

(***************************************************************************)
(* Results and values.                                                     *)
(***************************************************************************)
Ok(v) == [ok |-> TRUE, v |-> v]

Err(e) == [ok |-> FALSE, err |-> e]

\* no value: not constructed yet, or moved out by a consuming conversion
None == [ty |-> "None"]

\* pub struct Base64(pub Vec<u8>)
Base64(v) == [ty |-> "Base64", bytes |-> v]

\* pub struct UrlBase64(pub Vec<u8>)
UrlBase64(v) == [ty |-> "UrlBase64", bytes |-> v]

(***************************************************************************)
(* The engines.                                                            *)
(***************************************************************************)
PAD_BYTE == "="

UpperLowerDigits ==
    << "A", "B", "C", "D", "E", "F", "G", "H", "I", "J", "K", "L", "M",
       "N", "O", "P", "Q", "R", "S", "T", "U", "V", "W", "X", "Y", "Z",
       "a", "b", "c", "d", "e", "f", "g", "h", "i", "j", "k", "l", "m",
       "n", "o", "p", "q", "r", "s", "t", "u", "v", "w", "x", "y", "z",
       "0", "1", "2", "3", "4", "5", "6", "7", "8", "9" >>

\* alphabet::STANDARD
STANDARD == UpperLowerDigits \o <<"+", "/">>

\* alphabet::URL_SAFE
URL_SAFE == UpperLowerDigits \o <<"-", "_">>

\* a configuration that leaves the padding out on encode (NO_PAD's)
PAD_WITHOUT_ENCODE_PADDING ==
    [ encode_padding |-> FALSE,
      decode_allow_trailing_bits |-> FALSE,
      decode_padding_mode |-> "RequireCanonical" ]

\* engine::general_purpose::PAD
PAD ==
    [ encode_padding |-> TRUE,
      decode_allow_trailing_bits |-> FALSE,
      decode_padding_mode |-> "RequireCanonical" ]

with_decode_padding_mode(config, mode) ==
    [config EXCEPT !.decode_padding_mode = mode]

GeneralPurpose_new(alphabet, config) ==
    [alphabet |-> alphabet, config |-> config]

\* the standard engine built on the other alphabet
STANDARD_AS_URL_SAFE ==
    GeneralPurpose_new(URL_SAFE, with_decode_padding_mode(PAD, "Indifferent"))

\* pub const STANDARD_INDIFFERENT_PAD
STANDARD_INDIFFERENT_PAD ==
    GeneralPurpose_new(STANDARD, with_decode_padding_mode(PAD, "Indifferent"))

\* the URL-safe engine as base64 0.20 ships it: padding must be canonical
URL_SAFE_REQUIRE_CANONICAL == GeneralPurpose_new(URL_SAFE, PAD)

\* pub const URL_SAFE_INDIFFERENT_PAD
URL_SAFE_INDIFFERENT_PAD ==
    GeneralPurpose_new(URL_SAFE, with_decode_padding_mode(PAD, "Indifferent"))

\* the character of the 6-bit value n
Symbol(alphabet, n) == alphabet[n + 1]

\* the 6-bit value of a character, -1 for a character outside the alphabet
\* (the padding character is outside it)
Morsel(alphabet, c) ==
    IF \E i \in DOMAIN alphabet : alphabet[i] = c
    THEN (CHOOSE i \in DOMAIN alphabet : alphabet[i] = c) - 1
    ELSE -1

\* Engine::encode: three bytes make four symbols; a last group of one or two
\* bytes makes two or three symbols, padded to four when the engine pads
RECURSIVE encode(_, _)
encode(engine, bytes) ==
    LET a == engine.alphabet
        padding(k) == IF engine.config.encode_padding
                      THEN [i \in 1..k |-> PAD_BYTE] ELSE <<>>
    IN  IF Len(bytes) = 0 THEN <<>>
        ELSE IF Len(bytes) = 1 THEN
            << Symbol(a, bytes[1] \div 4),
               Symbol(a, (bytes[1] % 4) * 16) >> \o padding(2)
        ELSE IF Len(bytes) = 2 THEN
            << Symbol(a, bytes[1] \div 4),
               Symbol(a, (bytes[1] % 4) * 16 + bytes[2] \div 16),
               Symbol(a, (bytes[2] % 16) * 4) >> \o padding(1)
        ELSE
            << Symbol(a, bytes[1] \div 4),
               Symbol(a, (bytes[1] % 4) * 16 + bytes[2] \div 16),
               Symbol(a, (bytes[2] % 16) * 4 + bytes[3] \div 64),
               Symbol(a, bytes[3] % 64) >>
            \o encode(engine, SubSeq(bytes, 4, Len(bytes)))

\* a decode_suffix that lets symbols follow padding
NoSymbolAfterPaddingCheck(suffix) == FALSE

\* decode_suffix: a symbol after a padding character of the suffix
SymbolAfterPadding(suffix) ==
    \E i, j \in DOMAIN suffix :
        i < j /\ suffix[i] = PAD_BYTE /\ suffix[j] # PAD_BYTE

\* Engine::decode. Every quad but the last holds four symbols of the
\* alphabet. The last one to four characters are the suffix: symbols, then
\* padding; padding is an error after fewer than two symbols of the suffix
\* or before a symbol; fewer than two symbols are an invalid length; the
\* padding mode judges the count of padding characters; the bits of the last
\* symbol that reach no output byte are zero unless the engine allows them.
decode(engine, input) ==
    LET a == engine.alphabet
        n == Len(input)
        rem == n % 4
        quadsLen == IF n = 0 THEN 0 ELSE IF rem = 0 THEN n - 4 ELSE n - rem
        m(i) == Morsel(a, input[i])
        quadBytes ==
            [j \in 1..((quadsLen \div 4) * 3) |->
                LET base == 4 * ((j - 1) \div 3)
                    k == (j - 1) % 3
                IN  CASE k = 0 -> m(base + 1) * 4 + m(base + 2) \div 16
                      [] k = 1 -> (m(base + 2) % 16) * 16 + m(base + 3) \div 4
                      [] k = 2 -> (m(base + 3) % 4) * 64 + m(base + 4)]
        suffix == SubSeq(input, quadsLen + 1, n)
        pads == {i \in DOMAIN suffix : suffix[i] = PAD_BYTE}
        firstPad == IF pads = {} THEN Len(suffix) + 1
                    ELSE CHOOSE i \in pads : \A j \in pads : i <= j
        morsels == firstPad - 1
        sm(i) == Morsel(a, suffix[i])
        mode == engine.config.decode_padding_mode
        invalidByte ==
            \/ \E i \in 1..quadsLen : m(i) = -1
            \/ \E i \in pads : i - 1 < 2
            \/ SymbolAfterPadding(suffix)
            \/ \E i \in 1..morsels : sm(i) = -1
        invalidLength == n > 0 /\ morsels < 2
        invalidPadding ==
            \/ mode = "RequireCanonical" /\ (Cardinality(pads) + morsels) % 4 # 0
            \/ mode = "RequireNone" /\ pads # {}
        invalidLastSymbol ==
            /\ ~engine.config.decode_allow_trailing_bits
            /\ \/ morsels = 2 /\ sm(2) % 16 # 0
               \/ morsels = 3 /\ sm(3) % 4 # 0
        suffixBytes ==
            CASE morsels = 2 -> << sm(1) * 4 + sm(2) \div 16 >>
              [] morsels = 3 -> << sm(1) * 4 + sm(2) \div 16,
                                   (sm(2) % 16) * 16 + sm(3) \div 4 >>
              [] morsels = 4 -> << sm(1) * 4 + sm(2) \div 16,
                                   (sm(2) % 16) * 16 + sm(3) \div 4,
                                   (sm(3) % 4) * 64 + sm(4) >>
              [] OTHER -> <<>>
    IN  IF invalidByte \/ invalidLength \/ invalidPadding \/ invalidLastSymbol
        THEN Err("DecodeError")
        ELSE Ok(quadBytes \o suffixBytes)

(***************************************************************************)
(* serde_json around the two serde types of base64_serde_type!.            *)
(***************************************************************************)
DQUOTE == "\""

\* serde_json::to_string of a string scalar (no character of either alphabet
\* nor the padding character needs an escape)
json_string(s) == <<DQUOTE>> \o s \o <<DQUOTE>>

\* serde_json::from_str into a type whose Deserialize asks for a string and
\* decodes it with `engine`: the string token, the visitor's decode (its
\* error is a custom error, category Data), then the end of the document.
\* Documents here hold no backslash, so a string ends at its next quote.
json_from_str(engine, doc) ==
    IF doc = <<>> THEN Err("Eof")
    ELSE IF doc[1] # DQUOTE THEN Err("Syntax")
    ELSE LET closing == {i \in 2..Len(doc) : doc[i] = DQUOTE}
         IN  IF closing = {} THEN Err("Eof")
             ELSE LET c == CHOOSE i \in closing : \A j \in closing : i <= j
                      d == decode(engine, SubSeq(doc, 2, c - 1))
                  IN  IF ~d.ok THEN Err("Data")
                      ELSE IF c < Len(doc) THEN Err("Syntax")
                      ELSE Ok(d.v)

\* Result::map with the constructor Base64
map_Base64(r) == IF r.ok THEN Ok(Base64(r.v)) ELSE r

\* Result::map with the constructor UrlBase64
map_UrlBase64(r) == IF r.ok THEN Ok(UrlBase64(r.v)) ELSE r

(***************************************************************************)
(* Base64.                                                                 *)
(***************************************************************************)
\* impl Deref for Base64
deref(self) == self.bytes

\* impl AsRef<[u8]> for Base64
as_ref(self) == self.bytes

\* a deref_mut that hands out a copy: the write is lost
deref_mut_of_copy(self, written) == self

\* impl DerefMut for Base64: the value once the caller has left `written`
\* in the &mut Vec<u8> that deref_mut hands out
deref_mut(self, written) == Base64(written)

\* Vec<u8> as the callers of deref_mut use it
index_write(v, i, x) == [v EXCEPT ![i] = x]

swap(v, i, j) == [v EXCEPT ![i] = v[j], ![j] = v[i]]

push(v, x) == Append(v, x)

\* impl Serialize for Base64, under serde_json::to_string
Base64_serialize(self) ==
    Ok(json_string(encode(STANDARD_INDIFFERENT_PAD, self.bytes)))

\* impl Deserialize for Base64, under serde_json::from_str
Base64_deserialize(doc) ==
    map_Base64(json_from_str(STANDARD_INDIFFERENT_PAD, doc))

\* a from_str that decodes with the other type's engine
Base64_from_str_url_safe(s) == map_Base64(decode(URL_SAFE_INDIFFERENT_PAD, s))

\* impl FromStr for Base64
Base64_from_str(s) == map_Base64(decode(STANDARD_INDIFFERENT_PAD, s))

\* impl From<&[u8]> for Base64
Base64_from_slice(value) == Base64(value)

\* a conversion that goes through the encoded text instead of the bytes
Base64_from_UrlBase64_by_text(value) ==
    LET d == decode(STANDARD_INDIFFERENT_PAD,
                    encode(URL_SAFE_INDIFFERENT_PAD, value.bytes))
    IN  Base64(IF d.ok THEN d.v ELSE <<>>)

\* impl From<UrlBase64> for Base64
Base64_from_UrlBase64(value) == Base64(value.bytes)

\* impl Display for Base64, under to_string
Base64_to_string(self) == encode(STANDARD_INDIFFERENT_PAD, self.bytes)

\* the length the array conversion asks for
KeyLen == 32

\* the message of the failed array conversion, word by word
NOT_32_BYTES == <<"Base64", "was", "not", "32", "bytes", "of", "data.">>

\* <[u8]>::copy_from_slice panics unless the two lengths agree
copy_from_slice(arr, src) ==
    IF Len(arr) = Len(src) THEN Ok([i \in DOMAIN arr |-> src[i]])
    ELSE Err(<<"panic">>)

\* a conversion that takes the first 32 bytes of a longer value
try_from_truncating(value) ==
    IF Len(deref(value)) >= KeyLen
    THEN Ok(SubSeq(deref(value), 1, KeyLen))
    ELSE Err(NOT_32_BYTES)

\* a conversion whose error names the length it met
try_from_reporting_length(value) ==
    IF Len(deref(value)) = KeyLen
    THEN copy_from_slice([i \in 1..KeyLen |-> 0], deref(value))
    ELSE Err(<<"Base64", "was", ToString(Len(deref(value))), "bytes,", "not", "32">>)

\* impl TryFrom<Base64> for [u8; 32]
try_from(value) ==
    IF Len(deref(value)) = KeyLen
    THEN copy_from_slice([i \in 1..KeyLen |-> 0], deref(value))
    ELSE Err(NOT_32_BYTES)

(***************************************************************************)
(* UrlBase64.                                                              *)
(***************************************************************************)
\* impl Serialize for UrlBase64, under serde_json::to_string
UrlBase64_serialize(self) ==
    Ok(json_string(encode(URL_SAFE_INDIFFERENT_PAD, self.bytes)))

\* a Deserialize generated for the other engine
UrlBase64_deserialize_standard(doc) ==
    map_UrlBase64(json_from_str(STANDARD_INDIFFERENT_PAD, doc))

\* impl Deserialize for UrlBase64, under serde_json::from_str
UrlBase64_deserialize(doc) ==
    map_UrlBase64(json_from_str(URL_SAFE_INDIFFERENT_PAD, doc))

\* impl From<&[u8]> for UrlBase64
UrlBase64_from_slice(value) == UrlBase64(value)

\* impl From<Base64> for UrlBase64
UrlBase64_from_Base64(value) == UrlBase64(value.bytes)

(***************************************************************************)
(* The life of one value: built from the caller's vector, read and written *)
(* through the wrapper, converted between the two types, turned into text  *)
(* and back.                                                               *)
(***************************************************************************)
Text(by, stripped, s) == [by |-> by, stripped |-> stripped, s |-> s]

NoText == Text("none", FALSE, <<>>)

Holder == IF b64 # None THEN b64 ELSE url

Record(tag) == IF Len(trail) < MaxTrail THEN Append(trail, tag) ELSE trail

\* str::trim_end_matches('='): what a sender that omits padding sends
TrimPadding(s) ==
    LET kept == {i \in DOMAIN s : s[i] # PAD_BYTE}
        last == IF kept = {} THEN 0 ELSE CHOOSE i \in kept : \A j \in kept : j <= i
    IN  SubSeq(s, 1, last)

Init ==
    /\ vec \in ByteSeqs
    /\ b64 = None
    /\ url = None
    /\ text = NoText
    /\ out = None
    /\ pc = "start"
    /\ trail = <<>>

\* Base64::from(&vec[..])
NewBase64 ==
    /\ pc = "start"
    /\ b64' = Base64_from_slice(vec)
    /\ pc' = "value"
    /\ trail' = <<"slice">>
    /\ UNCHANGED <<vec, url, text, out>>

\* UrlBase64::from(&vec[..])
NewUrlBase64 ==
    /\ pc = "start"
    /\ url' = UrlBase64_from_slice(vec)
    /\ pc' = "value"
    /\ trail' = <<"slice">>
    /\ UNCHANGED <<vec, b64, text, out>>

\* a read through &Base64: &*b64 or b64.as_ref()
Deref ==
    /\ pc = "value"
    /\ b64 # None
    /\ \E read \in {deref(b64), as_ref(b64)} : out' = Ok(read)
    /\ pc' = "deref"
    /\ UNCHANGED <<vec, b64, url, text, trail>>

\* b64[i] = x, and the same on the caller's vector
IndexWrite(i, x) ==
    /\ pc = "value"
    /\ b64 # None
    /\ i \in DOMAIN deref(b64) \cap DOMAIN vec
    /\ b64' = deref_mut(b64, index_write(deref(b64), i, x))
    /\ vec' = index_write(vec, i, x)
    /\ trail' = Record("mut")
    /\ UNCHANGED <<url, text, out, pc>>

\* b64.swap(i, j), and the same on the caller's vector
Swap(i, j) ==
    /\ pc = "value"
    /\ b64 # None
    /\ {i, j} \subseteq DOMAIN deref(b64) \cap DOMAIN vec
    /\ i < j
    /\ b64' = deref_mut(b64, swap(deref(b64), i, j))
    /\ vec' = swap(vec, i, j)
    /\ trail' = Record("mut")
    /\ UNCHANGED <<url, text, out, pc>>

\* b64.push(x), and the same on the caller's vector
Push(x) ==
    /\ pc = "value"
    /\ b64 # None
    /\ Len(deref(b64)) < MaxLen
    /\ Len(vec) < MaxLen
    /\ b64' = deref_mut(b64, push(deref(b64), x))
    /\ vec' = push(vec, x)
    /\ trail' = Record("mut")
    /\ UNCHANGED <<url, text, out, pc>>

\* UrlBase64::from(b64): the Base64 value is moved
UrlFromBase64 ==
    /\ pc = "value"
    /\ b64 # None
    /\ url' = UrlBase64_from_Base64(b64)
    /\ b64' = None
    /\ trail' = Record("from")
    /\ UNCHANGED <<vec, text, out, pc>>

\* Base64::from(url): the UrlBase64 value is moved
Base64FromUrl ==
    /\ pc = "value"
    /\ url # None
    /\ b64' = Base64_from_UrlBase64(url)
    /\ url' = None
    /\ trail' = Record("from")
    /\ UNCHANGED <<vec, text, out, pc>>

\* b64.to_string()
Base64ToString ==
    /\ pc = "value"
    /\ b64 # None
    /\ text' = Text("to_string", FALSE, Base64_to_string(b64))
    /\ pc' = "str"
    /\ UNCHANGED <<vec, b64, url, out, trail>>

\* URL_SAFE_INDIFFERENT_PAD.encode(&url.0)
UrlEncode ==
    /\ pc = "value"
    /\ url # None
    /\ text' = Text("encode", FALSE, encode(URL_SAFE_INDIFFERENT_PAD, url.bytes))
    /\ pc' = "str"
    /\ UNCHANGED <<vec, b64, url, out, trail>>

\* the text passes through a sender that omits the padding
StripPadding ==
    /\ pc = "str"
    /\ ~text.stripped
    /\ text' = Text(text.by, TRUE, TrimPadding(text.s))
    /\ UNCHANGED <<vec, b64, url, out, pc, trail>>

\* format!("\"{}\"", base64_str)
Format ==
    /\ pc = "str"
    /\ text' = Text("format", text.stripped, json_string(text.s))
    /\ pc' = "formatted"
    /\ UNCHANGED <<vec, b64, url, out, trail>>

\* serde_json::to_string(&value)
Serialize ==
    /\ pc = "value"
    /\ LET r == IF b64 # None THEN Base64_serialize(b64)
                ELSE UrlBase64_serialize(url)
       IN  /\ out' = r
           /\ text' = IF r.ok THEN Text("serialize", FALSE, r.v) ELSE text
    /\ pc' = "serialized"
    /\ UNCHANGED <<vec, b64, url, trail>>

\* text.parse::<Base64>()
Parse ==
    /\ pc = "str"
    /\ b64 # None
    /\ out' = Base64_from_str(text.s)
    /\ pc' = "parsed"
    /\ UNCHANGED <<vec, b64, url, text, trail>>

\* URL_SAFE_INDIFFERENT_PAD.decode(text)
UrlDecode ==
    /\ pc = "str"
    /\ url # None
    /\ out' = map_UrlBase64(decode(URL_SAFE_INDIFFERENT_PAD, text.s))
    /\ pc' = "parsed"
    /\ UNCHANGED <<vec, b64, url, text, trail>>

\* serde_json::from_str(&text), into the type of the value the text is of
Deserialize ==
    /\ pc \in {"serialized", "formatted"}
    /\ out' = IF b64 # None THEN Base64_deserialize(text.s)
              ELSE UrlBase64_deserialize(text.s)
    /\ pc' = "parsed"
    /\ UNCHANGED <<vec, b64, url, text, trail>>

\* the caller goes on with the value it got back
Adopt ==
    /\ pc = "parsed"
    /\ out.ok
    /\ IF out.v.ty = "Base64" THEN b64' = out.v /\ url' = url
                              ELSE url' = out.v /\ b64' = b64
    /\ trail' = Record(IF text.stripped THEN "unpadded" ELSE "parsed")
    /\ out' = None
    /\ text' = NoText
    /\ pc' = "value"
    /\ UNCHANGED vec

\* the caller drops what it got back and goes on with the value it had
Drop ==
    /\ pc \in {"parsed", "deref"}
    /\ out' = None
    /\ text' = NoText
    /\ pc' = "value"
    /\ UNCHANGED <<vec, b64, url, trail>>

Next ==
    \/ NewBase64
    \/ NewUrlBase64
    \/ Deref
    \/ \E i \in 1..MaxLen, x \in ByteSet : IndexWrite(i, x)
    \/ \E i, j \in 1..MaxLen : Swap(i, j)
    \/ \E x \in ByteSet : Push(x)
    \/ UrlFromBase64
    \/ Base64FromUrl
    \/ Base64ToString
    \/ UrlEncode
    \/ StripPadding
    \/ Format
    \/ Serialize
    \/ Parse
    \/ UrlDecode
    \/ Deserialize
    \/ Adopt
    \/ Drop

Spec == Init /\ [][Next]_vars

(***************************************************************************)
(* A string from outside, handed to each of the four decoders.             *)
(***************************************************************************)
InitDecode ==
    /\ vec = <<>>
    /\ b64 = None
    /\ url = None
    /\ text \in {Text("input", FALSE, s) : s \in InputStrings}
    /\ out = None
    /\ pc = "input"
    /\ trail = <<>>

\* base64_str.parse::<Base64>()
ParseInput ==
    /\ pc = "input"
    /\ out' = Base64_from_str(text.s)
    /\ pc' = "from_str"
    /\ UNCHANGED <<vec, b64, url, text, trail>>

\* URL_SAFE_INDIFFERENT_PAD.decode(base64_str)
UrlDecodeInput ==
    /\ pc = "input"
    /\ out' = map_UrlBase64(decode(URL_SAFE_INDIFFERENT_PAD, text.s))
    /\ pc' = "url_decode"
    /\ UNCHANGED <<vec, b64, url, text, trail>>

\* serde_json::from_str::<Base64>(&format!("\"{}\"", base64_str))
DeserializeInput ==
    /\ pc = "input"
    /\ out' = Base64_deserialize(json_string(text.s))
    /\ pc' = "deserialize"
    /\ UNCHANGED <<vec, b64, url, text, trail>>

\* serde_json::from_str::<UrlBase64>(&format!("\"{}\"", base64_str))
UrlDeserializeInput ==
    /\ pc = "input"
    /\ out' = UrlBase64_deserialize(json_string(text.s))
    /\ pc' = "url_deserialize"
    /\ UNCHANGED <<vec, b64, url, text, trail>>

NextDecode ==
    \/ ParseInput
    \/ UrlDecodeInput
    \/ DeserializeInput
    \/ UrlDeserializeInput

SpecDecode == InitDecode /\ [][NextDecode]_vars

(***************************************************************************)
(* Key material: vectors of the lengths around 32, converted to [u8; 32].  *)
(***************************************************************************)
KeyVecs ==
    { [i \in 1..n |-> (first + (i - 1) * step) % 256] :
        n \in (0..MaxKeyLen) \cup {64}, first \in {0, 251}, step \in {0, 7} }

InitFixed ==
    /\ vec \in KeyVecs
    /\ b64 = None
    /\ url = None
    /\ text = NoText
    /\ out = None
    /\ pc = "start"
    /\ trail = <<>>

\* let received: Result<[u8; 32], _> = b64.try_into(): the value is moved
TryInto ==
    /\ pc = "value"
    /\ b64 # None
    /\ out' = try_from(b64)
    /\ b64' = None
    /\ pc' = "try_from"
    /\ UNCHANGED <<vec, url, text, trail>>

NextFixed ==
    \/ NewBase64
    \/ TryInto

SpecFixed == InitFixed /\ [][NextFixed]_vars

(***************************************************************************)
(* What the properties are stated in: base64 read off the bits.            *)
(***************************************************************************)
Pow2(k) == IF k = 0 THEN 1 ELSE IF k = 1 THEN 2 ELSE IF k = 2 THEN 4
           ELSE IF k = 3 THEN 8 ELSE IF k = 4 THEN 16 ELSE IF k = 5 THEN 32
           ELSE IF k = 6 THEN 64 ELSE 128

\* bit p (0 the first) of the bytes, 0 past their end
Bit(bytes, p) ==
    IF p \div 8 < Len(bytes)
    THEN (bytes[p \div 8 + 1] \div Pow2(7 - (p % 8))) % 2
    ELSE 0

\* the k-th (0 the first) group of six bits
Sextet(bytes, k) ==
    32 * Bit(bytes, 6 * k) + 16 * Bit(bytes, 6 * k + 1) + 8 * Bit(bytes, 6 * k + 2)
    + 4 * Bit(bytes, 6 * k + 3) + 2 * Bit(bytes, 6 * k + 4) + Bit(bytes, 6 * k + 5)

AlphabetOf(ty) == IF ty = "Base64" THEN STANDARD ELSE URL_SAFE

\* s is the canonical, padded base64 of bytes in the alphabet
Canonical(alphabet, s, bytes) ==
    LET n == Len(bytes)
        padCount == (3 - (n % 3)) % 3
    IN  /\ Len(s) = 4 * ((n + 2) \div 3)
        /\ \A k \in DOMAIN s :
              IF k > Len(s) - padCount THEN s[k] = "="
              ELSE s[k] = alphabet[Sextet(bytes, k - 1) + 1]

\* s is a quoted string without a quote inside
IsQuoted(s) ==
    /\ Len(s) >= 2
    /\ s[1] = DQUOTE
    /\ s[Len(s)] = DQUOTE
    /\ \A i \in 2..(Len(s) - 1) : s[i] # DQUOTE

Unquoted(s) == SubSeq(s, 2, Len(s) - 1)

Last(s) == s[Len(s)]

C2_SerdeRoundTrip ==
    /\ pc = "serialized" => (out.ok /\ IsQuoted(out.v) /\ text.s = out.v)
    /\ (pc = "parsed" /\ text.by = "serialize")
          => (out.ok /\ out.v = Holder /\ out.v.bytes = vec)

C2_Witness ==
    /\ pc = "parsed"
    /\ text.by = "serialize"
    /\ "_" \in Range(text.s)
    /\ Len(vec) = 2
    /\ out = Ok(UrlBase64(vec))

\* C3: the canonical text of a value and the same text without its trailing
\* '=' both decode, by parse and by deserialize, to the caller's bytes.
C3_PaddingIndifference ==
    (pc = "parsed" /\ text.by \in {"to_string", "encode", "format"})
        => (out.ok /\ out.v.bytes = vec /\ out.v.ty = Holder.ty)

C3_Witness ==
    /\ pc = "parsed"
    /\ text.by = "format"
    /\ text.stripped
    /\ Len(vec) % 3 = 1
    /\ Len(text.s) % 4 = 0
    /\ "=" \notin Range(text.s)
    /\ out = Ok(UrlBase64(vec))

\* C6: a value obtained by conversion from the other type wraps exactly the
\* bytes of the value it was made from, which is moved; so does the value
\* that went to the other type and back.
C6_CrossConversion ==
    (trail # <<>> /\ Last(trail) = "from")
        => /\ (b64 = None) # (url = None)
           /\ b64 # None => b64 = Base64(vec)
           /\ url # None => url = UrlBase64(vec)

C6_Witness ==
    /\ trail = <<"slice", "from", "from">>
    /\ 251 \in Range(vec)
    /\ b64 = Base64(vec)
    /\ url = None

\* C7: whatever the value was decoded from, its display string and the
\* content of its serialized string are the canonical padded base64 of its
\* bytes in its type's alphabet; no bytes give the empty string and [2, 99]
\* gives "AmM=".
C7_CanonicalEncoding ==
    /\ (pc = "str" /\ ~text.stripped)
          => Canonical(AlphabetOf(Holder.ty), text.s, vec)
    /\ pc = "serialized"
          => /\ IsQuoted(text.s)
             /\ Canonical(AlphabetOf(Holder.ty), Unquoted(text.s), vec)
    /\ (pc = "str" /\ ~text.stripped /\ vec = <<>>) => text.s = <<>>
    /\ (pc = "str" /\ ~text.stripped /\ vec = <<2, 99>> /\ b64 # None)
          => text.s = <<"A", "m", "M", "=">>

C7_Witness ==
    /\ pc = "str"
    /\ ~text.stripped
    /\ "unpadded" \in Range(trail)
    /\ b64 # None
    /\ Len(vec) % 3 = 2
    /\ Last(text.s) = "="

\* C10: after any reads and writes through the wrapper its bytes are those
\* of a plain vector put through the same operations, a read returns them
\* and leaves them, and an encoding made afterwards is that of these bytes.
C10_NoStaleEncoding ==
    /\ b64 # None => deref(b64) = vec
    /\ pc = "deref" => (out = Ok(vec) /\ b64 = Base64(vec))
    /\ (pc = "str" /\ text.by = "to_string" /\ ~text.stripped)
          => Canonical(STANDARD, text.s, vec)
    /\ (pc = "serialized" /\ b64 # None)
          => Canonical(STANDARD, Unquoted(text.s), vec)

C10_Witness ==
    /\ pc = "str"
    /\ text.by = "to_string"
    /\ Last(trail) = "mut"
    /\ Len(vec) >= 2
    /\ vec[1] # vec[2]
    /\ b64 = Base64(vec)

(***************************************************************************)
(* Properties of the decoders (SpecDecode).                                *)
(***************************************************************************)
Decoded == pc \in {"from_str", "url_decode", "deserialize", "url_deserialize"}

DecoderAlphabet ==
    IF pc \in {"from_str", "deserialize"} THEN STANDARD ELSE URL_SAFE

\* C4: a string with '-' or '_' fails to decode as Base64 and a string with
\* '+' or '/' fails to decode as UrlBase64; deserialize returns the failure
\* as an error of the data category.
C4_AlphabetExclusivity ==
    /\ (pc = "from_str" /\ Range(text.s) \cap {"-", "_"} # {})
          => out = Err("DecodeError")
    /\ (pc = "deserialize" /\ Range(text.s) \cap {"-", "_"} # {})
          => out = Err("Data")
    /\ (pc = "url_decode" /\ Range(text.s) \cap {"+", "/"} # {})
          => out = Err("DecodeError")
    /\ (pc = "url_deserialize" /\ Range(text.s) \cap {"+", "/"} # {})
          => out = Err("Data")

C4_Witness ==
    /\ pc = "deserialize"
    /\ text.s = <<"-", "_", "A", "A">>
    /\ out = Err("Data")

SymbolAfterPad(s) ==
    \E i, j \in DOMAIN s : i < j /\ s[i] = "=" /\ s[j] # "="

\* the symbols of s are a whole encoding: of the alphabet, not one symbol
\* over a multiple of four, no bit set that reaches no byte
WholePayload(alphabet, s) ==
    /\ \A i \in DOMAIN s : Morsel(alphabet, s[i]) # -1
    /\ Len(s) % 4 # 1
    /\ Len(s) % 4 = 2 => Morsel(alphabet, Last(s)) % 16 = 0
    /\ Len(s) % 4 = 3 => Morsel(alphabet, Last(s)) % 4 = 0

\* the padding that makes the length of the symbols a multiple of four
CanonicalPadding(s) == (4 - (Len(s) % 4)) % 4

TrailingPadding(s) == Len(s) - Len(TrimPadding(s))

\* C9 as stated: padding before a symbol fails, while a whole payload (not
\* the empty one) decodes with its trailing padding missing or surplus.
C9_AsStated ==
    /\ (Decoded /\ SymbolAfterPad(text.s)) => ~out.ok
    /\ ( /\ Decoded
         /\ TrimPadding(text.s) # <<>>
         /\ WholePayload(DecoderAlphabet, TrimPadding(text.s)) )
          => out.ok

\* C9: padding before a symbol fails under both alphabets; a whole payload
\* decodes with all, some or none of its canonical trailing padding, and
\* fails with more than that.
C9_PaddingPosition ==
    /\ (Decoded /\ SymbolAfterPad(text.s)) => ~out.ok
    /\ ( /\ Decoded
         /\ WholePayload(DecoderAlphabet, TrimPadding(text.s))
         /\ TrailingPadding(text.s) <= CanonicalPadding(TrimPadding(text.s)) )
          => out.ok
    /\ (Decoded /\ TrailingPadding(text.s) > CanonicalPadding(TrimPadding(text.s)))
          => ~out.ok

C9_Witness ==
    /\ pc = "url_decode"
    /\ text.s = <<"A", "Q", "=", "A">>
    /\ out = Err("DecodeError")

(***************************************************************************)
(* Properties of the conversion to [u8; 32] (SpecFixed).                   *)
(***************************************************************************)
\* C5: the conversion succeeds exactly when the value has 32 bytes, then
\* with an array of exactly these bytes; otherwise it returns an error.
C5_FixedLength ==
    pc = "try_from"
        => /\ out.ok <=> Len(vec) = 32
           /\ out.ok => out.v = vec
           /\ ~out.ok => out.err # <<"panic">>

C5_Witness ==
    /\ pc = "try_from"
    /\ Len(vec) = 32
    /\ vec[1] # vec[32]
    /\ out = Ok(vec)

\* C8 as stated: the error of a failed conversion carries the length of the
\* value and the expected length.
C8_AsStated ==
    (pc = "try_from" /\ ~out.ok)
        => /\ ToString(Len(vec)) \in Range(out.err)
           /\ "32" \in Range(out.err)

\* C8: the error of a failed conversion is one fixed message that names the
\* expected length, 32, and not the length of the value; it is a returned
\* value.
C8_FixedMessage ==
    (pc = "try_from" /\ ~out.ok)
        => /\ out.err = <<"Base64", "was", "not", "32", "bytes", "of", "data.">>
           /\ ToString(Len(vec)) \notin Range(out.err)

C8_Witness ==
    /\ pc = "try_from"
    /\ Len(vec) = 12
    /\ ~out.ok
    /\ "32" \in Range(out.err)

====
